---- MODULE Spec2Model ----
(***************************************************************************)
(* A state-machine model of openapi-mcp-generator:                         *)
(*   - the operation extractor and its tool naming                         *)
(*       (src/src/parser/extract-tools.ts, src/src/utils/code-gen.ts);     *)
(*   - the schema mapper (src/src/parser/extract-tools.ts);                *)
(*   - the emitted runtime: security resolution, OAuth2 token acquisition  *)
(*       and its cache, request dispatch (src/src/utils/security.ts).      *)
(* Strings are sequences of one-character strings, so that sanitising,     *)
(* case folding and concatenation are computed, not assumed.               *)
(***************************************************************************)
EXTENDS Integers, Sequences, FiniteSets, Bags, TLC

VARIABLES
    api,          \* the OpenAPI document handed to extractToolsFromApi
    xpc,          \* extractToolsFromApi: "loop" while iterating, "done" after return
    pathIdx,      \* index of the current entry of Object.entries(api.paths)
    methodIdx,    \* index of the current value of OpenAPIV3.HttpMethods
    usedNames,    \* the Set<string> usedNames
    tools,        \* the McpToolDefinition[] built so far
    options,      \* the options of the last call of getToolsFromOpenApi
    filteredTools, \* what the last call of getToolsFromOpenApi returned
    extractions,  \* history: what each call of extractToolsFromApi returned, in order
    graph,        \* the schema object graph (node identity -> node), as dereferenced
    stack,        \* the active calls of mapOpenApiSchemaToJsonSchema, innermost last
    out,          \* the JSON Schema nodes returned so far, by their place in the result
    input,        \* the schema object graph as it was handed to the mapper
    warnings,     \* the places in the result for which console.warn was called
    tpc,          \* the mapper: "start", "run", "done" or "overflow" (RangeError thrown)
    env,          \* process.env: variable name -> value, the empty string when unset
    definition,   \* the tool definition whose security the resolver is asked about
    applied,      \* appliedSecurity, the result of the find over securityRequirements
    rpc,          \* the resolver: "start" before the find, "done" after it
    cache,        \* global.__oauthTokenCache: the entries, one per cache key
    now,          \* Date.now(), in milliseconds
    ticks,        \* how often the clock has advanced
    calls,        \* the tool invocations in progress, by invocation slot
    started,      \* the number of tool invocations begun
    issued,       \* the number of tokens the token endpoint has issued
    responses,    \* history: the token responses whose tokens are in the cache
    rejected      \* history: the invocations that returned an error before the security step

xvars == <<api, xpc, pathIdx, methodIdx, usedNames, tools, options, filteredTools, extractions>>
tvars == <<graph, stack, out, tpc, input, warnings>>
rvars == <<env, definition, applied, rpc>>
ovars == <<cache, now, ticks, calls, started, issued, responses, rejected>>
vars == <<xvars, tvars, rvars, ovars>>

(***************************************************************************)
(* Characters and strings                                                  *)
(***************************************************************************)
LowerChars == <<"a","b","c","d","e","f","g","h","i","j","k","l","m",
                "n","o","p","q","r","s","t","u","v","w","x","y","z">>
UpperChars == <<"A","B","C","D","E","F","G","H","I","J","K","L","M",
                "N","O","P","Q","R","S","T","U","V","W","X","Y","Z">>
DigitChars == <<"0","1","2","3","4","5","6","7","8","9">>

Range(s) == { s[i] : i \in DOMAIN s }

IsLower(c) == c \in Range(LowerChars)
IsUpper(c) == c \in Range(UpperChars)
IsDigit(c) == c \in Range(DigitChars)

ToLowerChar(c) ==
    IF IsUpper(c) THEN LowerChars[CHOOSE i \in DOMAIN UpperChars : UpperChars[i] = c]
    ELSE c

ToUpperChar(c) ==
    IF IsLower(c) THEN UpperChars[CHOOSE i \in DOMAIN LowerChars : LowerChars[i] = c]
    ELSE c

\* String.prototype.toLowerCase / toUpperCase
ToLowerCase(s) == [i \in DOMAIN s |-> ToLowerChar(s[i])]
ToUpperCase(s) == [i \in DOMAIN s |-> ToUpperChar(s[i])]

\* `${n}` for a non-negative integer n
RECURSIVE NatToString(_)
NatToString(n) ==
    IF n < 10 THEN <<DigitChars[n + 1]>>
    ELSE NatToString(n \div 10) \o <<DigitChars[(n % 10) + 1]>>

\* path.split('/').filter(p => p): the non-empty pieces between separators
RECURSIVE SplitFrom(_, _, _, _)
SplitFrom(s, sep, i, cur) ==
    IF i > Len(s) THEN (IF cur = <<>> THEN <<>> ELSE <<cur>>)
    ELSE IF s[i] = sep
         THEN (IF cur = <<>> THEN <<>> ELSE <<cur>>) \o SplitFrom(s, sep, i + 1, <<>>)
         ELSE SplitFrom(s, sep, i + 1, Append(cur, s[i]))

SplitNonEmpty(s, sep) == SplitFrom(s, sep, 1, <<>>)

(***************************************************************************)
(* Tool naming (code-gen.ts: titleCase, generateOperationId;               *)
(* extract-tools.ts: sanitising and the counter loop)                      *)
(***************************************************************************)
\* .replace(/[-_\/](.)/g, (_, char) => char.toUpperCase()), scanning left to right
RECURSIVE ReplaceSeparators(_, _)
ReplaceSeparators(s, i) ==
    IF i > Len(s) THEN <<>>
    ELSE IF s[i] \in {"-", "_", "/"} /\ i < Len(s)
         THEN <<ToUpperChar(s[i + 1])>> \o ReplaceSeparators(s, i + 2)
         ELSE <<s[i]>> \o ReplaceSeparators(s, i + 1)

StripLeadingBrace(s) == IF s # <<>> /\ s[1] = "{" THEN SubSeq(s, 2, Len(s)) ELSE s
StripTrailingBrace(s) == IF s # <<>> /\ s[Len(s)] = "}" THEN SubSeq(s, 1, Len(s) - 1) ELSE s
CapitalizeFirst(s) == IF s = <<>> THEN s ELSE <<ToUpperChar(s[1])>> \o SubSeq(s, 2, Len(s))

titleCase(str) ==
    CapitalizeFirst(StripTrailingBrace(StripLeadingBrace(
        ReplaceSeparators(ToLowerCase(str), 1))))

IsPlaceholder(part) == part # <<>> /\ part[1] = "{" /\ part[Len(part)] = "}"

\* parts.forEach((part, index) => ...) from index i on, appended to name
RECURSIVE AppendParts(_, _, _)
AppendParts(name, parts, i) ==
    IF i > Len(parts) THEN name
    ELSE IF IsPlaceholder(parts[i])
         THEN IF i = Len(parts)
              THEN AppendParts(name \o <<"B", "y">> \o titleCase(parts[i]), parts, i + 1)
              ELSE AppendParts(name, parts, i + 1)
         ELSE AppendParts(name \o titleCase(parts[i]), parts, i + 1)

generateOperationId(method, path) ==
    LET parts == SplitNonEmpty(path, "/")
        named == AppendParts(ToLowerCase(method), parts, 1)
        full  == IF named = ToLowerCase(method) THEN named \o <<"R", "o", "o", "t">> ELSE named
    IN  CapitalizeFirst(full)

\* baseName.replace(/\./g, '_').replace(/[^a-z0-9_-]/gi, '_').toLowerCase()
SanitizeChar(c) ==
    IF IsLower(c) \/ IsUpper(c) \/ IsDigit(c) \/ c \in {"_", "-"} THEN c ELSE "_"

SanitizeName(baseName) == ToLowerCase([i \in DOMAIN baseName |-> SanitizeChar(baseName[i])])

\* BaseNameOf without the synthesised fallback
BaseNameOf_NoFallback(operationId, method, path) == operationId

\* operation.operationId || generateOperationId(method, path); an absent and an
\* empty operationId are both falsy and are both the empty string here
BaseNameOf(operationId, method, path) ==
    IF operationId # <<>> THEN operationId ELSE generateOperationId(method, path)

\* let finalToolName = baseName; let counter = 1;
\* while (usedNames.has(finalToolName)) finalToolName = `${baseName}_${counter++}`;
RECURSIVE CounterLoop(_, _, _, _)
CounterLoop(baseName, used, finalToolName, counter) ==
    IF finalToolName \in used
    THEN CounterLoop(baseName, used, baseName \o <<"_">> \o NatToString(counter), counter + 1)
    ELSE finalToolName

\* UniqueToolName with the loop run at most once
UniqueToolName_Once(baseName, used) ==
    IF baseName \in used THEN baseName \o <<"_">> \o NatToString(1) ELSE baseName

\* UniqueToolName with the counter started at 2
UniqueToolName_From2(baseName, used) == CounterLoop(baseName, used, baseName, 2)

UniqueToolName(baseName, used) == CounterLoop(baseName, used, baseName, 1)

(***************************************************************************)
(* Documents: the inputs of extractToolsFromApi                            *)
(***************************************************************************)
\* Object.values(OpenAPIV3.HttpMethods), in the enum's order
HttpMethods == << <<"g","e","t">>, <<"p","u","t">>, <<"p","o","s","t">>,
                 <<"d","e","l","e","t","e">>, <<"o","p","t","i","o","n","s">>,
                 <<"h","e","a","d">>, <<"p","a","t","c","h">>, <<"t","r","a","c","e">> >>

\* A security field: absent, null, or a list of requirement objects. A requirement
\* object is the sequence of its scheme names (its keys, in insertion order).
SecUndefined == [kind |-> "undefined", list |-> <<>>]
SecNull      == [kind |-> "null", list |-> <<>>]
SecList(l)   == [kind |-> "list", list |-> l]

SchemeA == <<"A">>
SchemeB == <<"B">>
SchemeG == <<"G">>

\* operation.requestBody when the operation declares none
NoRequestBody == [declared |-> FALSE, required |-> FALSE, content |-> <<>>]

\* a request body: content is the sequence of its media types, in the order of
\* Object.entries(opRequestBody.content) (empty when content is absent or {})
RequestBody(required, content) == [declared |-> TRUE, required |-> required, content |-> content]

\* one entry of requestBody.content
MediaType(type, hasSchema) == [type |-> type, hasSchema |-> hasSchema]

\* one entry of operation.parameters
Parameter(name, in, hasSchema, required) ==
    [name |-> name, in |-> in, hasSchema |-> hasSchema, required |-> required]

\* pathItem[method] when the path item declares no such operation
NoOperation ==
    [declared |-> FALSE, operationId |-> <<>>, security |-> SecUndefined,
     parameters |-> <<>>, requestBody |-> NoRequestBody]

OperationWith(id, sec, parameters, requestBody) ==
    [declared |-> TRUE, operationId |-> id, security |-> sec,
     parameters |-> parameters, requestBody |-> requestBody]

Operation(id, sec) == OperationWith(id, sec, <<>>, NoRequestBody)

\* the total number of operations a document of the model declares
MaxOps == 3

\* operationId values of the model: absent, plain, upper case, one that sanitises
\* to a suffixed name, and one that sanitises to a synthesised name
OperationIds == { <<>>, <<"a">>, <<"A">>, <<"a", ".", "1">>, <<"g","e","t","R","o","o","t">> }

\* operation-level security values of the model
OperationSecurities ==
    { SecUndefined, SecNull, SecList(<<>>), SecList(<< <<SchemeA>> >>),
      SecList(<< <<SchemeA, SchemeB>>, <<SchemeB>> >>) }

\* document-level security values of the model
GlobalSecurities == { SecUndefined, SecList(<<>>), SecList(<< <<SchemeG>> >>) }

\* path keys of the model: the root, and a path ending in a placeholder
PathPool == { <<"/">>, <<"/", "a", "/", "{", "i", "d", "}">> }

\* the methods on which the documents of the model declare operations
DeclMethods == { HttpMethods[1], HttpMethods[3] }

PathItemsOver(ops) ==
    { [isNull |-> TRUE, ops |-> [i \in DOMAIN HttpMethods |-> NoOperation]] } \cup
    { [isNull |-> FALSE,
       ops |-> [i \in DOMAIN HttpMethods |->
                  IF i = 1 THEN g ELSE IF i = 3 THEN p ELSE NoOperation]] :
        g \in ops \cup {NoOperation}, p \in ops \cup {NoOperation} }

PathTablesOver(ops) ==
    { <<>> } \cup
    { << [path |-> k, item |-> it] >> : k \in PathPool, it \in PathItemsOver(ops) } \cup
    { << [path |-> kk[1], item |-> it1], [path |-> kk[2], item |-> it2] >> :
        kk \in { q \in PathPool \X PathPool : q[1] # q[2] },
        it1 \in PathItemsOver(ops), it2 \in PathItemsOver(ops) }

DeclaredIn(item) == { i \in DOMAIN HttpMethods : ~item.isNull /\ item.ops[i].declared }

RECURSIVE DeclaredCount(_)
DeclaredCount(paths) ==
    IF paths = <<>> THEN 0
    ELSE Cardinality(DeclaredIn(paths[1].item)) + DeclaredCount(Tail(paths))

DocumentsOver(globals, ops) ==
    { [security |-> gs, hasPaths |-> TRUE, paths |-> ps] :
        gs \in globals,
        ps \in { t \in PathTablesOver(ops) : DeclaredCount(t) <= MaxOps } } \cup
    { [security |-> gs, hasPaths |-> FALSE, paths |-> <<>>] : gs \in globals }

\* the longest operation.parameters list of the model
MaxParams == 2

RequestBodyName == <<"r","e","q","u","e","s","t","B","o","d","y">>
ApplicationJson == "application/json"
TextPlain == "text/plain"
\* requestBodyContentType when it stays undefined
NoContentType == ""

\* parameters of the model: one name in two locations, required or not, with or
\* without a schema, and a parameter that is named requestBody
ParameterPool ==
    { Parameter(<<"q">>, "query", TRUE, TRUE), Parameter(<<"q">>, "query", TRUE, FALSE),
      Parameter(<<"q">>, "header", TRUE, TRUE), Parameter(<<"q">>, "query", FALSE, TRUE),
      Parameter(<<"i","d">>, "path", TRUE, TRUE),
      Parameter(RequestBodyName, "query", TRUE, FALSE) }

ParameterLists == UNION { [1..n -> ParameterPool] : n \in 0..MaxParams }

\* request bodies of the model: none; no media type; JSON with or without a schema,
\* alone or after another media type; another media type alone
RequestBodies ==
    { NoRequestBody } \cup
    { RequestBody(required, content) :
        required \in BOOLEAN,
        content \in { <<>>,
                      << MediaType(ApplicationJson, TRUE) >>,
                      << MediaType(ApplicationJson, FALSE) >>,
                      << MediaType(TextPlain, TRUE) >>,
                      << MediaType(TextPlain, TRUE), MediaType(ApplicationJson, TRUE) >>,
                      << MediaType(TextPlain, TRUE), MediaType(ApplicationJson, FALSE) >> } }

\* documents with one operation, POST on the path with a placeholder
DocumentsOfOne(ops) ==
    { [security |-> SecUndefined, hasPaths |-> TRUE,
       paths |-> << [path |-> <<"/", "a", "/", "{", "i", "d", "}">>,
                     item |-> [isNull |-> FALSE,
                               ops |-> [i \in DOMAIN HttpMethods |->
                                          IF i = 3 THEN op ELSE NoOperation]]] >>] :
        op \in ops }

\* Documents whose operations differ in their operationId, documents whose
\* operations differ in their security field, and documents whose one operation
\* varies in its parameters and its request body
Documents ==
    DocumentsOver({SecUndefined}, { Operation(id, SecUndefined) : id \in OperationIds }) \cup
    DocumentsOver(GlobalSecurities, { Operation(<<>>, sec) : sec \in OperationSecurities }) \cup
    DocumentsOfOne({ OperationWith(<<>>, SecUndefined, ps, rb) :
                       ps \in ParameterLists, rb \in RequestBodies })

(***************************************************************************)
(* generateInputSchemaAndDetails (extract-tools.ts:83-149)                 *)
(***************************************************************************)
\* properties[name] = value: the entry of that name is replaced
SetProperty(properties, name, value) ==
    { q \in properties : q.name # name } \cup { [name |-> name, value |-> value] }

\* allParameters.forEach(...) from parameter i on: the properties and the required
\* list after it. A property of a parameter records which parameter it came from.
RECURSIVE ProcessParameters(_, _, _)
ProcessParameters(allParameters, i, acc) ==
    IF i > Len(allParameters) THEN acc
    ELSE LET param == allParameters[i]
         IN  IF param.name = <<>> \/ ~param.hasSchema
             THEN ProcessParameters(allParameters, i + 1, acc)
             ELSE ProcessParameters(allParameters, i + 1,
                     [properties |-> SetProperty(acc.properties, param.name,
                                        [of |-> "parameter", index |-> i, type |-> "mapped"]),
                      required   |-> IF param.required THEN Append(acc.required, param.name)
                                     ELSE acc.required])

\* opRequestBody.content?.['application/json']
JsonContent(content) ==
    IF \E k \in DOMAIN content : content[k].type = ApplicationJson
    THEN content[CHOOSE k \in DOMAIN content : content[k].type = ApplicationJson]
    ELSE MediaType(NoContentType, FALSE)

\* the request body step (lines 109-139) applied to what the parameters gave
ProcessRequestBody(requestBody, acc) ==
    LET withBody(type) ==
            [properties |-> SetProperty(acc.properties, RequestBodyName,
                               [of |-> "requestBody", index |-> 0, type |-> type]),
             required   |-> IF requestBody.required
                            THEN Append(acc.required, RequestBodyName)
                            ELSE acc.required]
    IN  IF ~requestBody.declared
        THEN [requestBodyContentType |-> NoContentType] @@ acc
        ELSE IF JsonContent(requestBody.content).hasSchema
        THEN [requestBodyContentType |-> ApplicationJson] @@ withBody("mapped")
        ELSE IF requestBody.content # <<>>
        THEN [requestBodyContentType |-> requestBody.content[1].type] @@ withBody("string")
        ELSE [requestBodyContentType |-> NoContentType] @@ acc

\* generateInputSchemaAndDetails(operation)
generateInputSchemaAndDetails(operation) ==
    LET start == [properties |-> {}, required |-> <<>>]
        after == ProcessRequestBody(operation.requestBody,
                     ProcessParameters(operation.parameters, 1, start))
    IN  [inputSchema |-> [type |-> "object", properties |-> after.properties,
                          required |-> after.required],
         parameters |-> operation.parameters,
         requestBodyContentType |-> after.requestBodyContentType]

\* parameters.map(p => ({ name: p.name, in: p.in }))
ExecutionParameters(parameters) ==
    [i \in DOMAIN parameters |-> [name |-> parameters[i].name, in |-> parameters[i].in]]

(***************************************************************************)
(* extractToolsFromApi (extract-tools.ts:15-75), one loop iteration a step *)
(***************************************************************************)
\* const globalSecurity = api.security || [];
GlobalSecurity(doc) == IF doc.security.kind = "list" THEN doc.security.list ELSE <<>>

\* SecurityRequirementsOf with an empty operation-level list treated as absent
SecurityRequirementsOf_EmptyInherits(operation, globalSecurity) ==
    IF operation.security.kind = "list" /\ operation.security.list # <<>>
    THEN operation.security.list
    ELSE globalSecurity

\* operation.security === null ? globalSecurity : operation.security || globalSecurity
\* (an array, empty or not, is truthy)
SecurityRequirementsOf(operation, globalSecurity) ==
    IF operation.security.kind = "null" THEN globalSecurity
    ELSE IF operation.security.kind = "list" THEN operation.security.list
    ELSE globalSecurity

CurrentEntry == api.paths[pathIdx]
CurrentOperation == CurrentEntry.item.ops[methodIdx]

\* the next iteration of the inner loop, or of the outer one after the last method
Advance ==
    IF methodIdx < Len(HttpMethods)
    THEN /\ methodIdx' = methodIdx + 1
         /\ pathIdx' = pathIdx
    ELSE /\ methodIdx' = 1
         /\ pathIdx' = pathIdx + 1

\* tools = [], usedNames = new Set(); if (!api.paths) return tools;
ExtractBegin ==
    /\ xpc = "start"
    /\ xpc' = IF api.hasPaths THEN "loop" ELSE "done"
    /\ extractions' = IF api.hasPaths THEN extractions
                      ELSE Append(extractions, [api |-> api, tools |-> tools])
    /\ UNCHANGED <<api, pathIdx, methodIdx, usedNames, tools, options, filteredTools>>

\* if (!pathItem) continue;
SkipPathItem ==
    /\ xpc = "loop"
    /\ pathIdx <= Len(api.paths)
    /\ CurrentEntry.item.isNull
    /\ pathIdx' = pathIdx + 1
    /\ methodIdx' = 1
    /\ UNCHANGED <<api, xpc, usedNames, tools, options, filteredTools, extractions>>

\* if (!operation) continue;
SkipMethod ==
    /\ xpc = "loop"
    /\ pathIdx <= Len(api.paths)
    /\ ~CurrentEntry.item.isNull
    /\ ~CurrentOperation.declared
    /\ Advance
    /\ UNCHANGED <<api, xpc, usedNames, tools, options, filteredTools, extractions>>

\* the body of the inner loop for a declared operation
ProcessOperation ==
    /\ xpc = "loop"
    /\ pathIdx <= Len(api.paths)
    /\ ~CurrentEntry.item.isNull
    /\ CurrentOperation.declared
    /\ LET method   == HttpMethods[methodIdx]
           path     == CurrentEntry.path
           rawName  == BaseNameOf(CurrentOperation.operationId, method, path)
           baseName == SanitizeName(rawName)
           finalToolName == UniqueToolName(baseName, usedNames)
           details  == generateInputSchemaAndDetails(CurrentOperation)
       IN  IF rawName = <<>>
           THEN UNCHANGED <<usedNames, tools>>              \* if (!baseName) continue;
           ELSE /\ usedNames' = usedNames \cup {finalToolName}
                /\ tools' = Append(tools,
                      [name |-> finalToolName,
                       inputSchema |-> details.inputSchema,
                       method |-> method,
                       pathTemplate |-> path,
                       parameters |-> details.parameters,
                       executionParameters |-> ExecutionParameters(details.parameters),
                       requestBodyContentType |-> details.requestBodyContentType,
                       securityRequirements |->
                           SecurityRequirementsOf(CurrentOperation, GlobalSecurity(api)),
                       operationId |-> baseName])
    /\ Advance
    /\ UNCHANGED <<api, xpc, options, filteredTools, extractions>>

\* return tools;
ExtractReturn ==
    /\ xpc = "loop"
    /\ pathIdx > Len(api.paths)
    /\ xpc' = "done"
    /\ extractions' = Append(extractions, [api |-> api, tools |-> tools])
    /\ UNCHANGED <<api, pathIdx, methodIdx, usedNames, tools, options, filteredTools>>

\* the calls of extractToolsFromApi in one run of the model
MaxExtractions == 3

\* the documents the model extracts more than once: GET / alone, and GET / and
\* POST / with the same operationId
Reextracted ==
    { doc \in DocumentsOver({SecUndefined}, { Operation(<<"a">>, SecUndefined) }) :
        /\ Len(doc.paths) = 1
        /\ doc.paths[1].path = <<"/">>
        /\ ~doc.paths[1].item.isNull
        /\ doc.paths[1].item.ops[1].declared }

\* a further call that goes on with the names of the call before it
ExtractAgain_KeepsNames(doc) ==
    /\ xpc = "done"
    /\ api \in Reextracted
    /\ Len(extractions) < MaxExtractions
    /\ api' = doc
    /\ xpc' = "start"
    /\ pathIdx' = 1
    /\ methodIdx' = 1
    /\ tools' = <<>>
    /\ UNCHANGED <<usedNames, options, filteredTools, extractions>>

\* a further call of extractToolsFromApi: tools = [], usedNames = new Set()
ExtractAgain(doc) ==
    /\ xpc = "done"
    /\ api \in Reextracted
    /\ Len(extractions) < MaxExtractions
    /\ api' = doc
    /\ xpc' = "start"
    /\ pathIdx' = 1
    /\ methodIdx' = 1
    /\ usedNames' = {}
    /\ tools' = <<>>
    /\ UNCHANGED <<options, filteredTools, extractions>>

\* options.excludeOperationIds of the model: absent, an operationId as the document
\* spells it, and the same in lower case
Exclusions == { {}, { <<"A">> }, { <<"a">> } }

\* filteredTools.filter(tool => !excludeSet.has(tool.operationId)), when
\* excludeOperationIds is given and not empty
FilterTools(allTools, excludeOperationIds) ==
    IF excludeOperationIds # {}
    THEN SelectSeq(allTools, LAMBDA tool : tool.operationId \notin excludeOperationIds)
    ELSE allTools

\* the rest of getToolsFromOpenApi after extractToolsFromApi(api) returned
GetTools(excludeOperationIds) ==
    /\ xpc = "done"
    /\ xpc' = "returned"
    /\ options' = [excludeOperationIds |-> excludeOperationIds]
    /\ filteredTools' = FilterTools(tools, excludeOperationIds)
    /\ UNCHANGED <<api, pathIdx, methodIdx, usedNames, tools, extractions>>

\* the document-independent rest state of the extractor
ExtractIdle ==
    /\ api = [security |-> SecUndefined, hasPaths |-> FALSE, paths |-> <<>>]
    /\ xpc = "idle"
    /\ pathIdx = 1
    /\ methodIdx = 1
    /\ usedNames = {}
    /\ tools = <<>>
    /\ options = [excludeOperationIds |-> {}]
    /\ filteredTools = <<>>
    /\ extractions = <<>>

\* the rest state of the schema mapper
TranslateIdle ==
    /\ graph = <<>>
    /\ input = <<>>
    /\ stack = <<>>
    /\ out = {}
    /\ warnings = {}
    /\ tpc = "idle"

\* the rest state of the resolver when run on its own
ResolverIdle ==
    /\ definition = [securityRequirements |-> <<>>]
    /\ applied = [found |-> FALSE, index |-> 0, requirement |-> <<>>]
    /\ rpc = "idle"

\* the rest state of the tool invocations and the token cache
InvocationsIdle ==
    /\ cache = {}
    /\ now = 0
    /\ ticks = 0
    /\ calls = EmptyBag
    /\ started = 0
    /\ issued = 0
    /\ responses = {}
    /\ rejected = {}

\* the rest state of the emitted runtime
RuntimeIdle ==
    /\ env = <<>>
    /\ ResolverIdle
    /\ InvocationsIdle

ExtractInit ==
    /\ TranslateIdle
    /\ RuntimeIdle
    /\ api \in Documents
    /\ xpc = "start"
    /\ pathIdx = 1
    /\ methodIdx = 1
    /\ usedNames = {}
    /\ tools = <<>>
    /\ options = [excludeOperationIds |-> {}]
    /\ filteredTools = <<>>
    /\ extractions = <<>>

ExtractNext ==
    \/ ExtractBegin /\ UNCHANGED <<tvars, rvars, ovars>>
    \/ SkipPathItem /\ UNCHANGED <<tvars, rvars, ovars>>
    \/ SkipMethod /\ UNCHANGED <<tvars, rvars, ovars>>
    \/ ProcessOperation /\ UNCHANGED <<tvars, rvars, ovars>>
    \/ ExtractReturn /\ UNCHANGED <<tvars, rvars, ovars>>
    \/ \E doc \in Reextracted : ExtractAgain(doc) /\ UNCHANGED <<tvars, rvars, ovars>>
    \/ \E excludeOperationIds \in Exclusions :
          GetTools(excludeOperationIds) /\ UNCHANGED <<tvars, rvars, ovars>>

SpecExtract == ExtractInit /\ [][ExtractNext]_vars

(***************************************************************************)
(* Schema object graphs: the inputs of mapOpenApiSchemaToJsonSchema.       *)
(* A node is a JavaScript object; an edge holds the identity of its        *)
(* target, so the same object can be met again below itself.               *)
(***************************************************************************)
\* the number of schema objects of a graph
MaxNodes == 2

NodeIds == 1..MaxNodes

\* a `type` field: a single name, a list of names, or absent (no names)
ScalarType(name) == [isArray |-> FALSE, names |-> <<name>>]
NoType           == [isArray |-> FALSE, names |-> <<>>]
TypeArray(names) == [isArray |-> TRUE, names |-> names]

\* a node's outgoing edge: a property (key) or the items of an array
Edge(label, target) == [label |-> label, target |-> target]

\* a schema object: its type, its nullable marker, its properties and items edges;
\* example stands for the OpenAPI-only annotations (example, xml, externalDocs,
\* deprecated, readOnly, writeOnly), which the mapper deletes from its copy
SchemaNode(type, nullable, properties, items) ==
    [isRef |-> FALSE, isBoolean |-> FALSE, value |-> FALSE, type |-> type,
     nullable |-> nullable, example |-> FALSE, properties |-> properties, items |-> items]

\* { $ref: ... }, left in place by a parse without dereferencing
RefNode == [SchemaNode(NoType, FALSE, <<>>, 0) EXCEPT !.isRef = TRUE]

\* the boolean schemas true and false
BooleanNode(value) ==
    [SchemaNode(NoType, FALSE, <<>>, 0) EXCEPT !.isBoolean = TRUE, !.value = value]

\* a schema object that carries an example
WithExample(node) == [node EXCEPT !.example = TRUE]

LeafTypes == { ScalarType("string"), ScalarType("integer"), NoType,
               TypeArray(<<"string">>), TypeArray(<<"string", "null">>) }

PropertyLists ==
    { <<>> } \cup
    { << Edge("p", t) >> : t \in NodeIds } \cup
    { << Edge("p", t1), Edge("q", t2) >> : t1 \in NodeIds, t2 \in NodeIds }

NodeShapes ==
    { RefNode, BooleanNode(TRUE), BooleanNode(FALSE),
      WithExample(SchemaNode(ScalarType("string"), FALSE, <<>>, 0)) } \cup
    { SchemaNode(ty, n, <<>>, 0) : ty \in LeafTypes, n \in BOOLEAN } \cup
    { SchemaNode(ScalarType("object"), n, ps, 0) : n \in BOOLEAN, ps \in PropertyLists } \cup
    { SchemaNode(ScalarType("array"), n, <<>>, t) : n \in BOOLEAN, t \in NodeIds \cup {0} }

\* node 1 is the schema handed to the mapper
SchemaGraphs == [NodeIds -> NodeShapes]

(***************************************************************************)
(* mapOpenApiSchemaToJsonSchema (extract-tools.ts:157-219): one call or    *)
(* one return a step                                                       *)
(***************************************************************************)
\* if (schema.type === 'integer') jsonSchema.type = 'number';
IntegerToNumber(type) == IF type = ScalarType("integer") THEN ScalarType("number") ELSE type

Includes(names, name) == \E i \in DOMAIN names : names[i] = name

\* a nullable block that pushes null onto a type array that already lists it
FoldNullable_PushesAlways(type, nullable) ==
    IF ~nullable THEN type
    ELSE IF type.isArray THEN TypeArray(Append(type.names, "null"))
    ELSE IF type.names # <<>> THEN TypeArray(<<type.names[1], "null">>)
    ELSE ScalarType("null")

\* the type of the copy after the nullable block (lines 183-193)
FoldNullable(type, nullable) ==
    IF ~nullable THEN type
    ELSE IF type.isArray
         THEN IF Includes(type.names, "null") THEN type
              ELSE TypeArray(Append(type.names, "null"))
    ELSE IF type.names # <<>> THEN TypeArray(<<type.names[1], "null">>)
    ELSE ScalarType("null")

MappedType(node) == FoldNullable(IntegerToNumber(node.type), node.nullable)

\* the copy is shallow: a type array is shared with the input, and push changes it
TypeAfterCall(node) == IF node.type.isArray THEN MappedType(node) ELSE node.type

\* typeof propSchema === 'object' && propSchema !== null, and the same test on items:
\* the edges on whose target the mapper is called; a boolean target stays as it is
CallsOn(edges) == SelectSeq(edges, LAMBDA e : ~graph[e.target].isBoolean)

\* jsonSchema.type === 'object' && jsonSchema.properties
RecursesIntoProperties(node) ==
    MappedType(node) = ScalarType("object") /\ node.properties # <<>>

\* jsonSchema.type === 'array' && typeof jsonSchema.items === 'object' && items !== null
RecursesIntoItems(node) ==
    /\ MappedType(node) = ScalarType("array")
    /\ node.items # 0
    /\ ~graph[node.items].isBoolean

\* the nested calls one call makes, in order
ChildCalls(node) ==
    (IF RecursesIntoProperties(node) THEN CallsOn(node.properties) ELSE <<>>) \o
    (IF RecursesIntoItems(node) THEN << Edge("items", node.items) >> ELSE <<>>)

\* a $ref that yields a copy of the reference object instead of the placeholder
Placeholder_KeepsRef(path, id) ==
    [path |-> path, node |-> id, type |-> NoType, placeholder |-> FALSE,
     nullable |-> FALSE, example |-> FALSE, properties |-> "none", items |-> "none"]

\* return { type: 'object' };
Placeholder(path, id) ==
    [path |-> path, node |-> id, type |-> ScalarType("object"), placeholder |-> TRUE,
     nullable |-> FALSE, example |-> FALSE, properties |-> "none", items |-> "none"]

\* the JSON Schema object one call returns: the copy without nullable and without the
\* OpenAPI-only annotations; properties and items are "mapped" when replaced by the
\* results of nested calls, "raw" when left pointing into the input
Returned(path, id, node) ==
    IF node.isRef THEN Placeholder(path, id)
    ELSE [path |-> path, node |-> id, type |-> MappedType(node), placeholder |-> FALSE,
          nullable |-> FALSE, example |-> FALSE,
          properties |-> IF node.properties = <<>> THEN "none"
                         ELSE IF RecursesIntoProperties(node) THEN "mapped" ELSE "raw",
          items |-> IF node.items = 0 THEN "none"
                    ELSE IF RecursesIntoItems(node) THEN "mapped" ELSE "raw"]

\* the depth of nested calls at which the engine throws
\* RangeError: Maximum call stack size exceeded; deeper than any graph without a cycle
StackLimit == MaxNodes + 1

\* '$ref' in schema, evaluated first: the in operator throws a TypeError when its
\* right operand is a boolean, before the typeof schema === 'boolean' test is reached
InThrows(id) == graph[id].isBoolean

\* one call of mapOpenApiSchemaToJsonSchema on node id, reached by path
Call(id, path, callers) ==
    LET node == graph[id]
    IN  IF InThrows(id)
        THEN UNCHANGED <<graph, stack, out, warnings>>
        ELSE /\ stack' = Append(callers,
                            [node |-> id, path |-> path,
                             todo |-> IF node.isRef THEN <<>> ELSE ChildCalls(node)])
             /\ out' = out \cup { Returned(path, id, node) }
             /\ warnings' = IF node.isRef THEN warnings \cup {path} ELSE warnings
             /\ graph' = IF node.isRef THEN graph
                         ELSE [graph EXCEPT ![id].type = TypeAfterCall(node)]

\* the call on the schema handed in
TranslateBegin ==
    /\ tpc = "start"
    /\ tpc' = IF InThrows(1) THEN "typeError" ELSE "run"
    /\ Call(1, <<>>, <<>>)
    /\ UNCHANGED input

\* the next nested call of the innermost active call
MapChild ==
    /\ tpc = "run"
    /\ stack # <<>>
    /\ stack[Len(stack)].todo # <<>>
    /\ Len(stack) < StackLimit
    /\ LET top  == stack[Len(stack)]
           edge == Head(top.todo)
       IN  Call(edge.target, Append(top.path, edge.label),
                [stack EXCEPT ![Len(stack)].todo = Tail(top.todo)])
    /\ UNCHANGED <<tpc, input>>

\* a nested call for which no stack is left
StackOverflow ==
    /\ tpc = "run"
    /\ stack # <<>>
    /\ stack[Len(stack)].todo # <<>>
    /\ Len(stack) >= StackLimit
    /\ tpc' = "overflow"
    /\ UNCHANGED <<graph, stack, out, input, warnings>>

\* return jsonSchema;
MapReturn ==
    /\ tpc = "run"
    /\ stack # <<>>
    /\ stack[Len(stack)].todo = <<>>
    /\ stack' = SubSeq(stack, 1, Len(stack) - 1)
    /\ tpc' = IF Len(stack) = 1 THEN "done" ELSE "run"
    /\ UNCHANGED <<graph, out, input, warnings>>

TranslateInit ==
    /\ ExtractIdle
    /\ RuntimeIdle
    /\ graph \in SchemaGraphs
    /\ input = graph
    /\ stack = <<>>
    /\ out = {}
    /\ warnings = {}
    /\ tpc = "start"

TranslateNext ==
    \/ TranslateBegin /\ UNCHANGED <<xvars, rvars, ovars>>
    \/ MapChild /\ UNCHANGED <<xvars, rvars, ovars>>
    \/ StackOverflow /\ UNCHANGED <<xvars, rvars, ovars>>
    \/ MapReturn /\ UNCHANGED <<xvars, rvars, ovars>>

SpecTranslate == TranslateInit /\ [][TranslateNext]_vars

(***************************************************************************)
(* The emitted runtime (security.ts): credential slots and schemes         *)
(***************************************************************************)
API_KEY             == <<"A","P","I","_","K","E","Y">>
BEARER_TOKEN        == <<"B","E","A","R","E","R","_","T","O","K","E","N">>
BASIC_USERNAME      == <<"B","A","S","I","C","_","U","S","E","R","N","A","M","E">>
BASIC_PASSWORD      == <<"B","A","S","I","C","_","P","A","S","S","W","O","R","D">>
OAUTH_CLIENT_ID     == <<"O","A","U","T","H","_","C","L","I","E","N","T","_","I","D">>
OAUTH_CLIENT_SECRET == <<"O","A","U","T","H","_","C","L","I","E","N","T","_","S","E","C","R","E","T">>
OAUTH_TOKEN         == <<"O","A","U","T","H","_","T","O","K","E","N">>
OAUTH_SCOPES        == <<"O","A","U","T","H","_","S","C","O","P","E","S">>
OPENID_TOKEN        == <<"O","P","E","N","I","D","_","T","O","K","E","N">>

IsAlphanumeric(c) == IsLower(c) \/ IsUpper(c) \/ IsDigit(c)

\* schemeName.replace(/[^a-zA-Z0-9]/g, '_').toUpperCase()
SanitizedSchemeName(schemeName) ==
    ToUpperCase([i \in DOMAIN schemeName |->
                    IF IsAlphanumeric(schemeName[i]) THEN schemeName[i] ELSE "_"])

\* getEnvVarName(schemeName, type), and the same text inlined in the emitted resolver:
\* `TYPE_${schemeName.replace(/[^a-zA-Z0-9]/g, '_').toUpperCase()}`
getEnvVarName(schemeName, type) == type \o <<"_">> \o SanitizedSchemeName(schemeName)

\* process.env[name]; undefined and '' are both falsy and are both the empty string
ProcessEnv(name) == IF name \in DOMAIN env THEN env[name] ELSE <<>>
IsSet(name) == ProcessEnv(name) # <<>>

\* the scheme names of the model; the second and third need sanitising
ApiKeyScheme == <<"A">>
BearerScheme == <<"b","-","1">>
OAuthScheme  == <<"o",".","a">>
NoUrlScheme  == <<"n">>
UnknownScheme == <<"z">>
\* further schemes: http basic, http digest, openIdConnect, oauth2 with the password
\* flow, oauth2 with the authorizationCode flow only, oauth2 without flows
BasicScheme    == <<"b","a">>
DigestScheme   == <<"d">>
OpenIdScheme   == <<"i","d">>
PasswordScheme == <<"p">>
CodeFlowScheme == <<"a","c">>
FlowlessScheme == <<"f">>

NoFlow == [declared |-> FALSE, tokenUrl |-> <<>>]
Flow(url) == [declared |-> TRUE, tokenUrl |-> url]
NoFlows == [clientCredentials |-> NoFlow, password |-> NoFlow, authorizationCode |-> NoFlow]

Scheme(type, httpScheme, in, name, flows) ==
    [type |-> type, scheme |-> httpScheme, in |-> in, name |-> name, flows |-> flows]

\* allSecuritySchemes: components.securitySchemes of the generated server
allSecuritySchemes ==
    (ApiKeyScheme :> Scheme("apiKey", "", "header", <<"X","-","K","e","y">>, NoFlows)) @@
    (BearerScheme :> Scheme("http", "bearer", "", <<>>, NoFlows)) @@
    (OAuthScheme  :> Scheme("oauth2", "", "", <<>>,
                        [NoFlows EXCEPT !.clientCredentials = Flow(<<"u">>)])) @@
    (NoUrlScheme  :> Scheme("oauth2", "", "", <<>>,
                        [NoFlows EXCEPT !.clientCredentials = Flow(<<>>)])) @@
    (BasicScheme    :> Scheme("http", "basic", "", <<>>, NoFlows)) @@
    (DigestScheme   :> Scheme("http", "digest", "", <<>>, NoFlows)) @@
    (OpenIdScheme   :> Scheme("openIdConnect", "", "", <<>>, NoFlows)) @@
    (PasswordScheme :> Scheme("oauth2", "", "", <<>>,
                          [NoFlows EXCEPT !.password = Flow(<<"w">>)])) @@
    (CodeFlowScheme :> Scheme("oauth2", "", "", <<>>,
                          [NoFlows EXCEPT !.authorizationCode = Flow(<<"c">>)])) @@
    (FlowlessScheme :> Scheme("oauth2", "", "", <<>>, NoFlows))

(***************************************************************************)
(* The resolver: appliedSecurity (security.ts:213-261)                     *)
(***************************************************************************)
\* SchemeAvailable without the check of the declared flows
SchemeAvailable_AnyFlow(schemeName) ==
    IF schemeName \notin DOMAIN allSecuritySchemes THEN FALSE
    ELSE LET scheme == allSecuritySchemes[schemeName]
         IN  IF scheme.type = "apiKey" THEN IsSet(getEnvVarName(schemeName, API_KEY))
             ELSE IF scheme.type = "http" /\ scheme.scheme = "bearer"
                  THEN IsSet(getEnvVarName(schemeName, BEARER_TOKEN))
             ELSE IF scheme.type = "http" /\ scheme.scheme = "basic"
                  THEN /\ IsSet(getEnvVarName(schemeName, BASIC_USERNAME))
                       /\ IsSet(getEnvVarName(schemeName, BASIC_PASSWORD))
             ELSE IF scheme.type = "oauth2"
                  THEN \/ IsSet(getEnvVarName(schemeName, OAUTH_TOKEN))
                       \/ /\ IsSet(getEnvVarName(schemeName, OAUTH_CLIENT_ID))
                          /\ IsSet(getEnvVarName(schemeName, OAUTH_CLIENT_SECRET))
             ELSE IF scheme.type = "openIdConnect"
                  THEN IsSet(getEnvVarName(schemeName, OPENID_TOKEN))
             ELSE FALSE

\* SchemeAvailable with one of the two basic slots being enough
SchemeAvailable_BasicEither(schemeName) ==
    IF schemeName \notin DOMAIN allSecuritySchemes THEN FALSE
    ELSE LET scheme == allSecuritySchemes[schemeName]
         IN  IF scheme.type = "apiKey" THEN IsSet(getEnvVarName(schemeName, API_KEY))
             ELSE IF scheme.type = "http" /\ scheme.scheme = "bearer"
                  THEN IsSet(getEnvVarName(schemeName, BEARER_TOKEN))
             ELSE IF scheme.type = "http" /\ scheme.scheme = "basic"
                  THEN \/ IsSet(getEnvVarName(schemeName, BASIC_USERNAME))
                       \/ IsSet(getEnvVarName(schemeName, BASIC_PASSWORD))
             ELSE IF scheme.type = "oauth2"
                  THEN \/ IsSet(getEnvVarName(schemeName, OAUTH_TOKEN))
                       \/ /\ IsSet(getEnvVarName(schemeName, OAUTH_CLIENT_ID))
                          /\ IsSet(getEnvVarName(schemeName, OAUTH_CLIENT_SECRET))
                          /\ \/ scheme.flows.clientCredentials.declared
                             \/ scheme.flows.password.declared
             ELSE IF scheme.type = "openIdConnect"
                  THEN IsSet(getEnvVarName(schemeName, OPENID_TOKEN))
             ELSE FALSE

\* the callback of every(): is this scheme's credential configured
SchemeAvailable(schemeName) ==
    IF schemeName \notin DOMAIN allSecuritySchemes THEN FALSE
    ELSE LET scheme == allSecuritySchemes[schemeName]
         IN  IF scheme.type = "apiKey" THEN IsSet(getEnvVarName(schemeName, API_KEY))
             ELSE IF scheme.type = "http" /\ scheme.scheme = "bearer"
                  THEN IsSet(getEnvVarName(schemeName, BEARER_TOKEN))
             ELSE IF scheme.type = "http" /\ scheme.scheme = "basic"
                  THEN /\ IsSet(getEnvVarName(schemeName, BASIC_USERNAME))
                       /\ IsSet(getEnvVarName(schemeName, BASIC_PASSWORD))
             ELSE IF scheme.type = "oauth2"
                  THEN \/ IsSet(getEnvVarName(schemeName, OAUTH_TOKEN))
                       \/ /\ IsSet(getEnvVarName(schemeName, OAUTH_CLIENT_ID))
                          /\ IsSet(getEnvVarName(schemeName, OAUTH_CLIENT_SECRET))
                          /\ \/ scheme.flows.clientCredentials.declared
                             \/ scheme.flows.password.declared
             ELSE IF scheme.type = "openIdConnect"
                  THEN IsSet(getEnvVarName(schemeName, OPENID_TOKEN))
             ELSE FALSE

\* RequirementSatisfied with some() in place of every()
RequirementSatisfied_Some(req) == \E i \in DOMAIN req : SchemeAvailable(req[i])

\* Object.entries(req).every(...)
RequirementSatisfied(req) == \A i \in DOMAIN req : SchemeAvailable(req[i])

NotApplied == [found |-> FALSE, index |-> 0, requirement |-> <<>>]

\* definition.securityRequirements?.find(...) from index i on
RECURSIVE FindFrom(_, _)
FindFrom(requirements, i) ==
    IF i > Len(requirements) THEN NotApplied
    ELSE IF RequirementSatisfied(requirements[i])
         THEN [found |-> TRUE, index |-> i, requirement |-> requirements[i]]
         ELSE FindFrom(requirements, i + 1)

AppliedSecurity(requirements) == FindFrom(requirements, 1)

\* the longest securityRequirements list the resolver is asked about
MaxReqs == 2

\* the value a set credential slot holds
SlotValue(name) == <<"v">>

EnvWith(slots, names) == [n \in names |-> IF n \in slots THEN SlotValue(n) ELSE <<>>]

\* the credential slots the resolver's schemes read
ResolverSlots ==
    { getEnvVarName(ApiKeyScheme, API_KEY), getEnvVarName(BearerScheme, BEARER_TOKEN),
      getEnvVarName(OAuthScheme, OAUTH_TOKEN), getEnvVarName(OAuthScheme, OAUTH_CLIENT_ID),
      getEnvVarName(OAuthScheme, OAUTH_CLIENT_SECRET) }

ResolverEnvs == { EnvWith(slots, ResolverSlots) : slots \in SUBSET ResolverSlots }

RequirementNames == { ApiKeyScheme, BearerScheme, OAuthScheme, UnknownScheme }

\* requirement objects: the empty one, one scheme, or two schemes (AND)
Requirements ==
    { <<>> } \cup { <<a>> : a \in RequirementNames } \cup
    { <<q[1], q[2]>> : q \in { r \in RequirementNames \X RequirementNames : r[1] # r[2] } }

RequirementLists == UNION { [1..n -> Requirements] : n \in 0..MaxReqs }

\* the names of the credential kinds
CredentialTypes ==
    { API_KEY, BEARER_TOKEN, BASIC_USERNAME, BASIC_PASSWORD, OAUTH_CLIENT_ID,
      OAUTH_CLIENT_SECRET, OAUTH_TOKEN, OAUTH_SCOPES, OPENID_TOKEN }

\* every slot that carries the name of one scheme
SlotsOf(schemeName) == { getEnvVarName(schemeName, type) : type \in CredentialTypes }

\* the scheme names a requirement can carry: the declared ones and one that is not
SchemeNames == DOMAIN allSecuritySchemes \cup {UnknownScheme}

\* the resolver asked about one scheme alone, under every setting of its slots
SingleSchemeCasesOf(name) ==
    { [env |-> EnvWith(slots, SlotsOf(name)),
       definition |-> [securityRequirements |-> << <<name>> >>]] :
        slots \in SUBSET SlotsOf(name) }

SingleSchemeCases == UNION { SingleSchemeCasesOf(name) : name \in SchemeNames }

\* const appliedSecurity = definition.securityRequirements?.find(...)
Resolve ==
    /\ rpc = "start"
    /\ applied' = AppliedSecurity(definition.securityRequirements)
    /\ rpc' = "done"
    /\ UNCHANGED <<env, definition>>

ResolveInit ==
    /\ ExtractIdle
    /\ TranslateIdle
    /\ InvocationsIdle
    /\ \/ /\ env \in ResolverEnvs
          /\ definition \in [securityRequirements : RequirementLists]
       \/ \E case \in SingleSchemeCases :
             /\ env = case.env
             /\ definition = case.definition
    /\ applied = NotApplied
    /\ rpc = "start"

ResolveNext == Resolve /\ UNCHANGED <<xvars, tvars, ovars>>

SpecResolve == ResolveInit /\ [][ResolveNext]_vars

(***************************************************************************)
(* acquireOAuth2Token and its cache (security.ts:109-193)                  *)
(***************************************************************************)
\* const expiresIn = response.data.expires_in || 3600, in seconds
DefaultExpiresIn == 3600
\* expiresAt: now + (expiresIn * 1000) - 60000, in milliseconds
MillisPerSecond == 1000
SafetyMarginMillis == 60000

\* the name the emitted acquireOAuth2Token looks up: the template is filled when the
\* server is generated, with getEnvVarName('schemeName', type)
SchemeNameLiteral == <<"s","c","h","e","m","e","N","a","m","e">>
AcquireEnvVar(schemeName, type) == getEnvVarName(SchemeNameLiteral, type)

\* a key made of the client identifier alone
CacheKey_ClientOnly(schemeName, clientId) == clientId

\* const cacheKey = `${schemeName}_${clientId}`
CacheKey(schemeName, clientId) == schemeName \o <<"_">> \o clientId

NoEntry == [present |-> FALSE, token |-> <<>>, expiresAt |-> 0]

\* global.__oauthTokenCache[cacheKey]
CacheLookup(key) ==
    IF \E e \in cache : e.key = key
    THEN LET e == CHOOSE e \in cache : e.key = key
         IN  [present |-> TRUE, token |-> e.token, expiresAt |-> e.expiresAt]
    ELSE NoEntry

\* a lookup that still serves an entry at the instant it expires
CacheHit_AtExpiry(entry, at) == entry.present /\ entry.expiresAt >= at

\* cachedToken && cachedToken.expiresAt > now
CacheHit(entry, at) == entry.present /\ entry.expiresAt > at

\* a write that counts the lifetime from the time of the response
CacheWrite_FromResponseTime(key, token, at, expiresIn) ==
    { e \in cache : e.key # key } \cup
    { [key |-> key, token |-> token,
       expiresAt |-> now + (expiresIn * MillisPerSecond) - SafetyMarginMillis] }

\* a write that replaces the token of an entry and keeps the expiry it had
CacheWrite_KeepsExpiry(key, token, at, expiresIn) ==
    { e \in cache : e.key # key } \cup
    { [key |-> key, token |-> token,
       expiresAt |-> IF \E e \in cache : e.key = key
                     THEN (CHOOSE e \in cache : e.key = key).expiresAt
                     ELSE at + (expiresIn * MillisPerSecond) - SafetyMarginMillis] }

\* global.__oauthTokenCache[cacheKey] = { token, expiresAt: ... }
CacheWrite(key, token, at, expiresIn) ==
    { e \in cache : e.key # key } \cup
    { [key |-> key, token |-> token,
       expiresAt |-> at + (expiresIn * MillisPerSecond) - SafetyMarginMillis] }

\* a failed response that drops the entry of the key
CacheAfter_DropsOnFailure(key, token, at, response) ==
    IF response.kind = "token"
    THEN CacheWrite(key, token, at,
                    IF response.expires_in # 0 THEN response.expires_in ELSE DefaultExpiresIn)
    ELSE { e \in cache : e.key # key }

\* the cache after the token endpoint answered (lines 171-192): written when the
\* body carries an access_token, with expires_in || 3600; untouched otherwise
CacheAfter(key, token, at, response) ==
    IF response.kind = "token"
    THEN CacheWrite(key, token, at,
                    IF response.expires_in # 0 THEN response.expires_in ELSE DefaultExpiresIn)
    ELSE cache

\* the token URL of the flow used: clientCredentials, else password, else none
TokenUrl(scheme) ==
    IF scheme.flows.clientCredentials.tokenUrl # <<>>
    THEN scheme.flows.clientCredentials.tokenUrl
    ELSE scheme.flows.password.tokenUrl

\* headers[name] = value (by: the scheme that set it)
SetHeader(headers, name, value, by) ==
    { h \in headers : h.name # name } \cup { [name |-> name, value |-> value, by |-> by] }

Authorization == <<"a","u","t","h","o","r","i","z","a","t","i","o","n">>
AcceptHeader == [name |-> <<"A","c","c","e","p","t">>, value |-> <<"a","p","p","l","i","c","a","t","i","o","n","/","j","s","o","n">>, by |-> <<>>]

Bearer(token) == <<"B","e","a","r","e","r"," ">> \o token

\* Buffer.from(text).toString('base64'), kept opaque: one symbol that stands for the
\* encoding of the text
Base64(text) == << text >>

Basic(username, password) ==
    <<"B","a","s","i","c"," ">> \o Base64(username \o <<":">> \o password)

CookieHeader == <<"c","o","o","k","i","e">>

\* headers[name], '' when absent
HeaderValue(headers, name) ==
    IF \E h \in headers : h.name = name
    THEN (CHOOSE h \in headers : h.name = name).value
    ELSE <<>>

\* a resolver step that never reads the pre-provisioned token
PreProvided_Ignored(schemeName) == <<>>

\* process.env[`OAUTH_TOKEN_...`] of the scheme: the pre-provisioned token
PreProvided(schemeName) == ProcessEnv(getEnvVarName(schemeName, OAUTH_TOKEN))

\* the token the n-th successful token response carries
IssuedToken(n) == <<"T">> \o NatToString(n)

\* a tool invocation that has just begun
NewCall ==
    [pc |-> "applying", requirements |-> <<>>, found |-> FALSE, entry |-> <<>>,
     warned |-> FALSE, pos |-> 0, headers |-> {}, query |-> {}, at |-> 0, client |-> <<>>, key |-> <<>>, seen |-> NoEntry, acquired |-> "none", why |-> "none",
     requests |-> 0, token |-> <<>>, request |-> <<>>, error |-> "none"]

\* acquireOAuth2Token(schemeName, scheme) up to its return or its await of axios:
\* the invocation record after it, for the scheme at position i of the entry
Acquire(call, i, schemeName, scheme) ==
    LET clientId     == ProcessEnv(AcquireEnvVar(schemeName, OAUTH_CLIENT_ID))
        clientSecret == ProcessEnv(AcquireEnvVar(schemeName, OAUTH_CLIENT_SECRET))
        key          == CacheKey(schemeName, clientId)
        seen         == CacheLookup(key)
        asked        == [call EXCEPT !.pos = i, !.at = now, !.requests = 0,
                                     !.client = clientId,
                                     !.token = <<>>, !.key = <<>>, !.seen = NoEntry]
    IN  IF clientId = <<>> \/ clientSecret = <<>>
        THEN [asked EXCEPT !.acquired = "failed", !.why = "credentials"]
        ELSE IF CacheHit(seen, now)
        THEN [asked EXCEPT !.acquired = "hit", !.why = "none", !.key = key, !.seen = seen,
                           !.token = seen.token]
        ELSE IF TokenUrl(scheme) = <<>>
        THEN [asked EXCEPT !.acquired = "failed", !.why = "flow", !.key = key, !.seen = seen]
        ELSE [asked EXCEPT !.acquired = "pending", !.why = "none", !.key = key, !.seen = seen,
                           !.requests = 1, !.pc = "awaitToken"]

\* the body of the loop over appliedSecurity for one scheme (lines 266-343), up to
\* the await of acquireOAuth2Token when a token request is sent
ApplyScheme(call, i) ==
    LET schemeName == call.entry[i]
        scheme     == allSecuritySchemes[schemeName]
    IN  IF scheme.type = "apiKey"
        THEN LET apiKey == ProcessEnv(getEnvVarName(schemeName, API_KEY))
             IN  IF apiKey # <<>> /\ scheme.in = "header"
                 THEN [call EXCEPT !.headers =
                          SetHeader(@, ToLowerCase(scheme.name), apiKey, schemeName)]
                 ELSE IF apiKey # <<>> /\ scheme.in = "query"
                 THEN [call EXCEPT !.query =
                          SetHeader(@, scheme.name, apiKey, schemeName)]
                 ELSE IF apiKey # <<>> /\ scheme.in = "cookie"
                 THEN LET before == HeaderValue(call.headers, CookieHeader)
                      IN  [call EXCEPT !.headers =
                              SetHeader(@, CookieHeader,
                                  scheme.name \o <<"=">> \o apiKey \o
                                      (IF before # <<>> THEN <<";", " ">> \o before ELSE <<>>),
                                  schemeName)]
                 ELSE call
        ELSE IF scheme.type = "http" /\ scheme.scheme = "bearer"
        THEN LET token == ProcessEnv(getEnvVarName(schemeName, BEARER_TOKEN))
             IN  IF token # <<>>
                 THEN [call EXCEPT !.headers =
                          SetHeader(@, Authorization, Bearer(token), schemeName)]
                 ELSE call
        ELSE IF scheme.type = "http" /\ scheme.scheme = "basic"
        THEN LET username == ProcessEnv(getEnvVarName(schemeName, BASIC_USERNAME))
                 password == ProcessEnv(getEnvVarName(schemeName, BASIC_PASSWORD))
             IN  IF username # <<>> /\ password # <<>>
                 THEN [call EXCEPT !.headers =
                          SetHeader(@, Authorization, Basic(username, password), schemeName)]
                 ELSE call
        ELSE IF scheme.type = "openIdConnect"
        THEN LET token == ProcessEnv(getEnvVarName(schemeName, OPENID_TOKEN))
             IN  IF token # <<>>
                 THEN [call EXCEPT !.headers =
                          SetHeader(@, Authorization, Bearer(token), schemeName)]
                 ELSE call
        ELSE IF scheme.type = "oauth2"
        THEN LET token == PreProvided(schemeName)
             IN  IF token # <<>>
                 THEN [call EXCEPT !.headers =
                          SetHeader(@, Authorization, Bearer(token), schemeName)]
                 ELSE IF scheme.flows.clientCredentials.declared \/ scheme.flows.password.declared
                 THEN LET after == Acquire(call, i, schemeName, scheme)
                      IN  IF after.token # <<>>
                          THEN [after EXCEPT !.headers =
                                  SetHeader(@, Authorization, Bearer(after.token), schemeName)]
                          ELSE after
                 ELSE call
        ELSE call

\* the loop over the entries of appliedSecurity from position i on, then the
\* dispatch of the proxied request (await axios(config))
RECURSIVE ApplyFrom(_, _)
ApplyFrom(call, i) ==
    IF i > Len(call.entry) THEN [call EXCEPT !.pc = "awaitApi"]
    ELSE LET after == ApplyScheme(call, i)
         IN  IF after.pc = "awaitToken" THEN after ELSE ApplyFrom(after, i + 1)

\* the security step with an unsatisfied tool refused instead of dispatched
Security_RejectsUnsatisfied(call, requirements) ==
    LET found == AppliedSecurity(requirements)
    IN  IF found.found
        THEN ApplyFrom([call EXCEPT !.found = TRUE, !.entry = found.requirement], 1)
        ELSE IF Len(requirements) > 0
        THEN [call EXCEPT !.warned = TRUE, !.pc = "returned"]
        ELSE [call EXCEPT !.pc = "awaitApi"]

\* the security step of executeApiTool (lines 213-362) up to its first await:
\* resolve, then apply the entry found, or warn when the tool declares requirements
\* and none is satisfied; then the dispatch of the proxied request
Security(call, requirements) ==
    LET found == AppliedSecurity(requirements)
    IN  IF found.found
        THEN ApplyFrom([call EXCEPT !.found = TRUE, !.entry = found.requirement], 1)
        ELSE IF Len(requirements) > 0
        THEN [call EXCEPT !.warned = TRUE, !.pc = "awaitApi"]
        ELSE [call EXCEPT !.pc = "awaitApi"]

(***************************************************************************)
(* Tool invocations: executeApiTool (security.ts:378-512), one run between *)
(* two awaits a step                                                       *)
(***************************************************************************)
\* the tool invocations that can be in progress at once
MaxCalls == 2
\* the tool invocations begun in one run of the model
MaxInvocations == 2
\* the advances of the clock in one run of the model
MaxTicks == 1

\* a token response with a short expires_in (seconds)
ShortLived == [kind |-> "token", expires_in |-> 120]

\* the advance of the clock, in milliseconds: the lifetime in the cache of a
\* short-lived token, which expires at the first instant it is no longer served
TickMillis == ShortLived.expires_in * MillisPerSecond - SafetyMarginMillis

\* the invocations in progress, a bag of invocation records: replace one, remove one
One(call) == SetToBag({call})
InProgress == BagToSet(calls)

\* securityRequirements of a tool that needs no credential
NoRequirements == <<>>

\* securityRequirements of the tools in toolDefinitionMap
ToolRequirements ==
    { << <<OAuthScheme>> >>, << <<NoUrlScheme>> >>, << <<BearerScheme, OAuthScheme>> >>,
      << <<PasswordScheme>> >>, NoRequirements }

\* the credential slots the invocations read
InvocationSlots ==
    { getEnvVarName(BearerScheme, BEARER_TOKEN), getEnvVarName(OAuthScheme, OAUTH_TOKEN),
      getEnvVarName(OAuthScheme, OAUTH_CLIENT_ID), getEnvVarName(OAuthScheme, OAUTH_CLIENT_SECRET),
      getEnvVarName(NoUrlScheme, OAUTH_CLIENT_ID), getEnvVarName(NoUrlScheme, OAUTH_CLIENT_SECRET),
      getEnvVarName(PasswordScheme, OAUTH_CLIENT_ID),
      getEnvVarName(PasswordScheme, OAUTH_CLIENT_SECRET),
      getEnvVarName(SchemeNameLiteral, OAUTH_CLIENT_ID),
      getEnvVarName(SchemeNameLiteral, OAUTH_CLIENT_SECRET) }

\* the client credentials of the declared OAuth2 schemes, set or unset together
DeclaredClientSlots ==
    { getEnvVarName(OAuthScheme, OAUTH_CLIENT_ID), getEnvVarName(OAuthScheme, OAUTH_CLIENT_SECRET),
      getEnvVarName(NoUrlScheme, OAUTH_CLIENT_ID), getEnvVarName(NoUrlScheme, OAUTH_CLIENT_SECRET),
      getEnvVarName(PasswordScheme, OAUTH_CLIENT_ID),
      getEnvVarName(PasswordScheme, OAUTH_CLIENT_SECRET) }

InvocationEnvs ==
    { EnvWith(slots, InvocationSlots) :
        slots \in { sl \in SUBSET InvocationSlots :
                      DeclaredClientSlots \subseteq sl \/ DeclaredClientSlots \cap sl = {} } }

\* what the token endpoint can answer: a token with or without expires_in (seconds),
\* a body without access_token, or a failed request
TokenResponses ==
    { [kind |-> "token", expires_in |-> 0], ShortLived,
      [kind |-> "noAccessToken", expires_in |-> 0], [kind |-> "error", expires_in |-> 0] }

\* console.error(...) of a failed acquisition is not part of the state
Reason(kind) == "response"

\* what the handler finds out about a tools/call request before the security step:
\* whether toolDefinitionMap has the tool, whether zodSchema.parse accepts the
\* arguments, and whether urlPath is free of '{' after the parameters were applied
ToolCall(toolKnown, argsValid, pathResolved) ==
    [toolKnown |-> toolKnown, argsValid |-> argsValid, pathResolved |-> pathResolved]

\* a request that passes the three checks
Accepted == ToolCall(TRUE, TRUE, TRUE)

\* the requests of the model: one that passes, and one failing each check
ToolCalls == { Accepted, ToolCall(FALSE, TRUE, TRUE), ToolCall(TRUE, FALSE, TRUE),
               ToolCall(TRUE, TRUE, FALSE) }

\* a handler that resolves security and dispatches without the checks before it
CallTool_Unchecked(call, requirements) == Security(call, requirements)

\* the call tool handler and executeApiTool up to the first await or the first
\* return: tool lookup, argument validation, parameter routing and the placeholder
\* check (whose throw is caught at line 489 and returned), then the security step
CallTool(call, requirements) ==
    IF ~call.request.toolKnown
    THEN [call EXCEPT !.pc = "returned", !.error = "unknownTool"]
    ELSE IF ~call.request.argsValid
    THEN [call EXCEPT !.pc = "returned", !.error = "invalidArguments"]
    ELSE IF ~call.request.pathResolved
    THEN [call EXCEPT !.pc = "returned", !.error = "unresolvedPath"]
    ELSE Security(call, requirements)

\* an invocation that waits until no token request is outstanding
Invoke_Serialized(requirements, request) ==
    /\ BagCardinality(calls) < MaxCalls
    /\ started < MaxInvocations
    /\ \A other \in InProgress : other.pc # "awaitToken"
    /\ started' = started + 1
    /\ LET begun == [NewCall EXCEPT !.requirements = requirements,
                                    !.headers = {AcceptHeader},
                                    !.request = request]
           after == CallTool(begun, requirements)
       IN  IF after.error # "none"
           THEN /\ rejected' = rejected \cup { [n |-> started + 1, error |-> after.error] }
                /\ calls' = calls
           ELSE /\ calls' = calls (+) One(after)
                /\ rejected' = rejected
    /\ UNCHANGED <<env, cache, now, ticks, issued, responses>>

\* a tool invocation up to its first await, or up to its return when a check fails
Invoke(requirements, request) ==
    /\ BagCardinality(calls) < MaxCalls
    /\ started < MaxInvocations
    /\ started' = started + 1
    /\ LET begun == [NewCall EXCEPT !.requirements = requirements,
                                    !.headers = {AcceptHeader},
                                    !.request = request]
           after == CallTool(begun, requirements)
       IN  IF after.error # "none"
           THEN /\ rejected' = rejected \cup { [n |-> started + 1, error |-> after.error] }
                /\ calls' = calls
           ELSE /\ calls' = calls (+) One(after)
                /\ rejected' = rejected
    /\ UNCHANGED <<env, cache, now, ticks, issued, responses>>

\* the token endpoint answered: the rest of acquireOAuth2Token (lines 171-192),
\* then the apply loop goes on
TokenResponse(call, response) ==
    /\ call \in InProgress
    /\ call.pc = "awaitToken"
    /\ LET schemeName == call.entry[call.pos]
           token      == IssuedToken(issued + 1)
       IN  IF response.kind = "token"
           THEN /\ cache' = CacheAfter(call.key, token, call.at, response)
                /\ issued' = issued + 1
                /\ responses' =
                       { r \in responses : \E e \in cache' : e.token = r.token } \cup
                       { [token |-> token, at |-> call.at, expires_in |-> response.expires_in] }
                /\ calls' = (calls (-) One(call)) (+) One(
                       ApplyFrom([call EXCEPT !.pc = "applying", !.acquired = "fetched",
                                              !.token = token,
                                              !.headers = SetHeader(@, Authorization,
                                                              Bearer(token), schemeName)],
                                 call.pos + 1))
           ELSE /\ calls' = (calls (-) One(call)) (+) One(
                       ApplyFrom([call EXCEPT !.pc = "applying", !.acquired = "failed",
                                              !.why = Reason(response.kind)],
                                 call.pos + 1))
                /\ cache' = CacheAfter(call.key, token, call.at, response)
                /\ UNCHANGED <<issued, responses>>
    /\ UNCHANGED <<env, now, ticks, started, rejected>>

\* the proxied API answered (or failed): executeApiTool returns its result
ApiResponse(call) ==
    /\ call \in InProgress
    /\ call.pc = "awaitApi"
    /\ calls' = calls (-) One(call)
    /\ UNCHANGED <<env, cache, now, ticks, started, issued, responses, rejected>>

\* time passes
Tick ==
    /\ ticks < MaxTicks
    /\ ticks' = ticks + 1
    /\ now' = now + TickMillis
    /\ UNCHANGED <<env, cache, calls, started, issued, responses, rejected>>

RuntimeInit ==
    /\ ExtractIdle
    /\ TranslateIdle
    /\ ResolverIdle
    /\ env \in InvocationEnvs
    /\ cache = {}
    /\ now = 0
    /\ ticks = 0
    /\ calls = EmptyBag
    /\ started = 0
    /\ issued = 0
    /\ responses = {}
    /\ rejected = {}

RuntimeNext ==
    \/ \E r \in ToolRequirements, request \in ToolCalls :
          Invoke(r, request) /\ UNCHANGED <<xvars, tvars, definition, applied, rpc>>
    \/ \E call \in InProgress, response \in TokenResponses :
          TokenResponse(call, response) /\ UNCHANGED <<xvars, tvars, definition, applied, rpc>>
    \/ \E call \in InProgress :
          ApiResponse(call) /\ UNCHANGED <<xvars, tvars, definition, applied, rpc>>
    \/ Tick /\ UNCHANGED <<xvars, tvars, definition, applied, rpc>>

SpecRuntime == RuntimeInit /\ [][RuntimeNext]_vars

(***************************************************************************)
(* Properties of the extractor                                             *)
(***************************************************************************)
ToolNames == { tools[i].name : i \in DOMAIN tools }
NamesBefore(i) == { tools[j].name : j \in 1..(i - 1) }
Suffixed(baseName, k) == baseName \o <<"_">> \o NatToString(k)

\* the operation a tool was extracted from
EntryOf(tool) == CHOOSE e \in Range(api.paths) : e.path = tool.pathTemplate
MethodIndexOf(tool) == CHOOSE i \in DOMAIN HttpMethods : HttpMethods[i] = tool.method
OperationOf(tool) == EntryOf(tool).item.ops[MethodIndexOf(tool)]

\* C1: no two tools of one extractToolsFromApi call share a name; the name chosen
\* for an operation is not in usedNames when it is chosen and is in usedNames
\* before the next operation is processed, whatever the sequence of base names
\* (a suffixed name may equal the base name of a later operation).
C1_NamesUnique ==
    /\ [](/\ \A i, j \in DOMAIN tools : i # j => tools[i].name # tools[j].name
          /\ usedNames = ToolNames)
    /\ [][tools' # tools /\ xpc' # "start" =>
             /\ Len(tools') = Len(tools) + 1
             /\ tools'[Len(tools')].name \notin usedNames
             /\ tools'[Len(tools')].name \in usedNames']_vars

\* C1 witness: base names a, a, a_1 in this order have been processed and the
\* third tool had to take a name other than a_1
C1_Witness ==
    /\ xpc = "done"
    /\ Len(tools) = 3
    /\ tools[1].operationId = <<"a">>
    /\ tools[2].operationId = <<"a">>
    /\ tools[3].operationId = <<"a", "_", "1">>
    /\ tools[2].name = <<"a", "_", "1">>
    /\ tools[3].name = <<"a", "_", "1", "_", "1">>

\* C8: an operation whose security field is the empty list gets no requirements
\* even under a non-empty global security; one with a non-empty field gets exactly
\* that list; one with no field gets the document's global list; each tool's
\* requirements depend on its own operation only.
C8_SecurityOverride ==
    \A i \in DOMAIN tools :
        LET op     == OperationOf(tools[i])
            global == IF api.security.kind = "list" THEN api.security.list ELSE <<>>
        IN  /\ (op.security.kind = "list" /\ op.security.list = <<>>)
                  => tools[i].securityRequirements = <<>>
            /\ (op.security.kind = "list" /\ op.security.list # <<>>)
                  => tools[i].securityRequirements = op.security.list
            /\ op.security.kind = "undefined"
                  => tools[i].securityRequirements = global

\* C8 witness: under a non-empty global security, one operation declared the empty
\* list and a sibling declared nothing; the first has no requirement and the
\* sibling kept the global one
C8_Witness ==
    /\ xpc = "done"
    /\ api.security.kind = "list" /\ api.security.list # <<>>
    /\ \E i, j \in DOMAIN tools :
          /\ i # j
          /\ OperationOf(tools[i]).security = SecList(<<>>)
          /\ tools[i].securityRequirements = <<>>
          /\ OperationOf(tools[j]).security = SecUndefined
          /\ tools[j].securityRequirements = api.security.list

ToolsFor(path, method) ==
    { i \in DOMAIN tools : tools[i].pathTemplate = path /\ tools[i].method = method }

Occurrence(i) == Cardinality({ j \in 1..i : tools[j].operationId = tools[i].operationId })

\* C10 as stated: the first operation with a base name keeps it, the second gets
\* the suffix _2, the third _3, and so on.
C10_SuffixFromTwo ==
    \A i \in DOMAIN tools :
        tools[i].name = IF Occurrence(i) = 1 THEN tools[i].operationId
                        ELSE Suffixed(tools[i].operationId, Occurrence(i))

\* C10 amended: an operation whose base name is not yet used keeps it; otherwise
\* it gets base_k for the smallest k >= 1 such that base_k is not yet used (so the
\* second operation with a base name gets _1 and the third _2 when no other
\* operation took these names).
C10_SuffixLeastUnused ==
    \A i \in DOMAIN tools :
        LET baseName == tools[i].operationId
            used     == NamesBefore(i)
        IN  IF baseName \notin used
            THEN tools[i].name = baseName
            ELSE \E k \in 1..Len(tools) :
                    /\ tools[i].name = Suffixed(baseName, k)
                    /\ Suffixed(baseName, k) \notin used
                    /\ \A m \in 1..(k - 1) : Suffixed(baseName, m) \in used

\* C10 witness: three operations with one base name, named base, base_1, base_2
C10_Witness ==
    /\ Len(tools) = 3
    /\ tools[1].operationId = tools[2].operationId
    /\ tools[2].operationId = tools[3].operationId
    /\ tools[1].name = tools[1].operationId
    /\ tools[2].name = Suffixed(tools[1].operationId, 1)
    /\ tools[3].name = Suffixed(tools[1].operationId, 2)

\* C26: getToolsFromOpenApi with excludeOperationIds returns no tool whose operation
\* has an operationId of the excluded list, and the operationId field of a returned
\* tool is the operationId its operation has in the document.
C26_ExcludedOperations ==
    xpc = "returned" =>
        \A i \in DOMAIN filteredTools :
            LET declared == OperationOf(filteredTools[i]).operationId
            IN  /\ declared \notin options.excludeOperationIds
                /\ declared # <<>> => filteredTools[i].operationId = declared

\* C27: the calls of extractToolsFromApi are independent: two calls on the same
\* document return the same tools, with the same names in the same order, whatever
\* was extracted before and between them.
C27_IndependentExtractions ==
    \A i, j \in DOMAIN extractions :
        extractions[i].api = extractions[j].api =>
            extractions[i].tools = extractions[j].tools

\* a document with two operations of one base name has been extracted, then another
\* document, then the first one again
C27_Witness ==
    /\ Len(extractions) = 3
    /\ extractions[1].api = extractions[3].api
    /\ extractions[2].api # extractions[1].api
    /\ Len(extractions[3].tools) = 2
    /\ extractions[3].tools[2].name = Suffixed(extractions[3].tools[1].name, 1)

(***************************************************************************)
(* Properties of the schema mapper                                         *)
(***************************************************************************)
\* the target of the edge of node id that carries a label (0 when there is none)
Target(id, label) ==
    IF id = 0 THEN 0
    ELSE LET node == graph[id]
         IN  IF label = "items" THEN node.items
             ELSE IF \E i \in DOMAIN node.properties : node.properties[i].label = label
                  THEN node.properties[CHOOSE i \in DOMAIN node.properties :
                                           node.properties[i].label = label].target
                  ELSE 0

\* the node a path of edge labels leads to from the schema handed in (0: no node)
RECURSIVE NodeAt(_)
NodeAt(path) ==
    IF path = <<>> THEN 1
    ELSE Target(NodeAt(SubSeq(path, 1, Len(path) - 1)), path[Len(path)])

\* a call on a node that is already being mapped further up the same path
ReEntrant(r) == \E k \in 0..(Len(r.path) - 1) : NodeAt(SubSeq(r.path, 1, k)) = r.node

\* the places of a schema: every node of a graph is met on a path of at most
\* MaxNodes edges
Places == { path \in UNION { [1..n -> {"p", "q", "items"}] : n \in 0..MaxNodes } :
              NodeAt(path) # 0 }

\* what a node shows to a reader of the schema: its kind, type, markers and edges
View(isBoolean, value, isRef, type, nullable, example, id) ==
    [isBoolean |-> isBoolean, value |-> value, isRef |-> isRef, type |-> type,
     nullable |-> nullable, example |-> example,
     edges |-> { l \in {"p", "q", "items"} : Target(id, l) # 0 }]

\* the node at a place of the schema handed in
Given(path) ==
    LET node == input[NodeAt(path)]
    IN  View(node.isBoolean, node.value, node.isRef, node.type, node.nullable,
             node.example, NodeAt(path))

\* the node at a place of the result: the object a call returned for that place, or,
\* where no call was made, the input's own object
Emitted(path) ==
    IF \E r \in out : r.path = path
    THEN LET r == CHOOSE r \in out : r.path = path
         IN  View(FALSE, FALSE, FALSE, r.type, r.nullable, r.example,
                  IF r.placeholder THEN 0 ELSE r.node)
    ELSE LET node == graph[NodeAt(path)]
         IN  View(node.isBoolean, node.value, node.isRef, node.type, node.nullable,
                  node.example, NodeAt(path))

\* C2: mapping a schema that refers back to itself (directly or through another
\* schema) ends: the mapper never exhausts the call stack, and the branch that
\* re-enters a schema being mapped is the placeholder {type: object}.
C2_CycleTermination ==
    /\ tpc # "overflow"
    /\ \A r \in out : ReEntrant(r) => r.placeholder

\* C21: integer normalization. When the mapper has returned, no node of the result
\* has the type integer, at any depth, whether or not an enclosing object or array
\* is nullable.
C21_IntegerNormalization ==
    tpc = "done" =>
        \A path \in Places : ~Includes(Emitted(path).type.names, "integer")

\* the names of a type other than null, in order
NonNull(names) == SelectSeq(names, LAMBDA n : n # "null")

\* how often null is listed in a type
Nulls(names) == Len(SelectSeq(names, LAMBDA n : n = "null"))

\* the name under which a declared scalar type is emitted
EmittedName(name) == IF name = "integer" THEN "number" ELSE name

C23_BooleanPassThrough ==
    /\ tpc # "typeError"
    /\ tpc = "done" =>
          \A path \in Places : Given(path).isBoolean => Emitted(path) = Given(path)

\* C24: a reference object met by the mapper, as the schema handed in, as a property
\* value or as the items of an array, is returned as the placeholder {type: object}
\* and a warning is written for it; the call raises no error, and the properties and
\* items next to it are mapped as they are without it.
C24_UnresolvedReference ==
    /\ \A r \in out :
          input[r.node].isRef =>
              /\ r.placeholder
              /\ r.type = ScalarType("object")
              /\ r.properties = "none" /\ r.items = "none"
              /\ r.path \in warnings
    /\ \A path \in warnings : \E r \in out : r.path = path /\ input[r.node].isRef
    /\ tpc = "typeError" => input[1].isBoolean
    /\ tpc = "overflow" => \E r \in out : ~input[r.node].isRef /\ ReEntrant(r)
    /\ tpc = "done" =>
          \A r \in out :
              r.properties = "mapped" =>
                  \A i \in DOMAIN input[r.node].properties :
                      LET edge == input[r.node].properties[i]
                      IN  ~input[edge.target].isBoolean =>
                              \E c \in out : c.path = Append(r.path, edge.label)

\* the first property of an object is a reference, and the mapper went on to the
\* second one after the placeholder had been returned for the first
C24_Witness ==
    /\ tpc = "done"
    /\ \E r \in out, c \in out :
          /\ r.path = <<"p">> /\ input[r.node].isRef /\ r.placeholder
          /\ <<"p">> \in warnings
          /\ c.path = <<"q">>

\* a schema without a nullable marker, an integer type or a reference at any depth
Plain == \A path \in Places :
             /\ ~Given(path).nullable
             /\ ~Given(path).isRef
             /\ ~Includes(Given(path).type.names, "integer")

\* C25: round trip on plain inputs. For a schema without nullable marker, integer
\* type and reference at any depth the mapper returns, and what it returns is
\* structurally equal to the schema handed in.
C25_RoundTrip ==
    Plain => /\ tpc \notin {"typeError", "overflow"}
             /\ tpc = "done" => \A path \in Places : Emitted(path) = Given(path)

\* C30: the mapper leaves the schema objects handed to it as they were, the type
\* array of a nullable object included.
C30_InputUnchanged == graph = input

(***************************************************************************)
(* Properties of the resolver                                              *)
(***************************************************************************)
\* the entries of the list in which every scheme named is available
Qualifying ==
    { i \in DOMAIN definition.securityRequirements :
        \A k \in DOMAIN definition.securityRequirements[i] :
            SchemeAvailable(definition.securityRequirements[i][k]) }

\* C3: the resolver returns the first entry, in declared order, all of whose
\* schemes are available, and nothing when no entry qualifies.
C3_FirstSatisfiable ==
    rpc = "done" =>
        IF Qualifying = {}
        THEN ~applied.found
        ELSE /\ applied.found
             /\ applied.index \in Qualifying
             /\ \A i \in Qualifying : applied.index <= i
             /\ applied.requirement = definition.securityRequirements[applied.index]

\* C3 witness: requirements [{A}, {B}] with only B's credential set resolve to {B},
\* the second entry
C3_Witness ==
    /\ rpc = "done"
    /\ definition.securityRequirements = << <<ApiKeyScheme>>, <<BearerScheme>> >>
    /\ ~IsSet(getEnvVarName(ApiKeyScheme, API_KEY))
    /\ IsSet(getEnvVarName(BearerScheme, BEARER_TOKEN))
    /\ applied = [found |-> TRUE, index |-> 2, requirement |-> <<BearerScheme>>]

(***************************************************************************)
(* Properties of the token cache and of token acquisition                  *)
(***************************************************************************)
\* the scheme whose token the invocation last asked for
AskedScheme(call) == call.entry[call.pos]

\* the invocation went through the cache lookup of acquireOAuth2Token
LookedUp(call) == call.key # <<>>

\* the entry the invocation saw was still valid when it looked
SawValid(call) == call.seen.present /\ call.seen.expiresAt > call.at

\* the invocation record r appears in this step
Appears(r) == CopiesIn(r, calls') > CopiesIn(r, calls)

\* the lifetime in the cache, in milliseconds, of the token of a response
Lifetime(r) ==
    (IF r.expires_in # 0 THEN r.expires_in ELSE DefaultExpiresIn) * MillisPerSecond
        - SafetyMarginMillis

\* C4: token cache. A call for a key that finds no entry, or an entry with
\* expiresAt <= now, sends exactly one token request and, when the request succeeds,
\* returns the newly issued token, which is then the entry of the key; a call that
\* finds an entry with now < expiresAt returns the token of that entry and sends no
\* request; so a token comes from the cache only while its expiresAt is in the future.
C4_TokenCache ==
    /\ [](\A call \in InProgress :
            /\ (LookedUp(call) /\ SawValid(call)) =>
                  /\ call.acquired = "hit"
                  /\ call.requests = 0
                  /\ call.token = call.seen.token
            /\ (LookedUp(call) /\ ~SawValid(call)
                  /\ TokenUrl(allSecuritySchemes[AskedScheme(call)]) # <<>>) =>
                  /\ call.requests = 1
                  /\ call.acquired \in {"pending", "fetched", "failed"}
                  /\ call.acquired = "fetched" =>
                        /\ call.token # <<>>
                        /\ call.token # call.seen.token
                        /\ \E n \in 1..issued : call.token = IssuedToken(n)
            /\ call.acquired = "hit" =>
                  call.seen.present /\ call.seen.expiresAt > call.at)
    /\ [][\A r \in BagToSet(calls') :
            (Appears(r) /\ r.acquired = "fetched" /\ issued' # issued) =>
                /\ issued' = issued + 1
                /\ r.token = IssuedToken(issued')
                /\ \E e \in cache' : e.key = r.key /\ e.token = r.token]_vars

\* C4 witness: a call made at the instant the entry of its key expired
\* (expiresAt = now) has fetched a new token, which is now the entry of the key
C4_Witness ==
    \E call \in InProgress :
        /\ call.acquired = "fetched"
        /\ call.seen.present
        /\ call.seen.expiresAt = call.at
        /\ call.token # call.seen.token
        /\ \E e \in cache : e.key = call.key /\ e.token = call.token

\* C5: whenever the client-id and client-secret slots of an OAuth2 scheme S are set
\* (the slots the resolver's availability check reads), token acquisition for S does
\* not fail with "missing client credentials"
C5_CredentialsOfTheScheme ==
    \A call \in InProgress :
        (call.acquired = "failed" /\ call.why = "credentials") =>
            ~(/\ IsSet(getEnvVarName(AskedScheme(call), OAUTH_CLIENT_ID))
              /\ IsSet(getEnvVarName(AskedScheme(call), OAUTH_CLIENT_SECRET)))

\* C6: in every reachable state the cache holds at most one entry per key, each entry
\* has both a token and an expiry, and both come from one successful response
C6_WholeEntries ==
    \A e \in cache :
        /\ DOMAIN e = {"key", "token", "expiresAt"}
        /\ e.token # <<>>
        /\ \A f \in cache : f.key = e.key => f = e
        /\ \E r \in responses :
              /\ e.token = r.token
              /\ e.expiresAt = r.at + Lifetime(r)

\* C6 witness: two calls for one key both found the cache empty, both fetched a token,
\* and the entry of the key is the one written last
C6_Witness ==
    \E first \in InProgress, last \in InProgress :
        /\ first.acquired = "fetched" /\ last.acquired = "fetched"
        /\ first.key = last.key
        /\ ~first.seen.present /\ ~last.seen.present
        /\ first.token # last.token
        /\ \E e \in cache : e.key = last.key /\ e.token = last.token

\* C7: a failed acquisition returns no token, leaves the cache as it was, and the
\* invocation still dispatches the proxied request, without an Authorization header
\* set by that scheme
C7_FailureFallsBack ==
    /\ [](\A call \in InProgress :
            call.acquired = "failed" =>
                /\ call.token = <<>>
                /\ call.pc = "awaitApi"
                /\ ~\E h \in call.headers :
                       h.name = Authorization /\ h.by = AskedScheme(call))
    /\ [][(\E r \in BagToSet(calls') : Appears(r) /\ r.acquired = "failed")
             => cache' = cache]_vars

\* C7 witness: the token request of a call failed while the cache held an entry for
\* its key, and the call has dispatched the proxied request
C7_Witness ==
    \E call \in InProgress :
        /\ call.acquired = "failed"
        /\ call.why = Reason("error")
        /\ call.pc = "awaitApi"
        /\ \E e \in cache : e.key = call.key

(***************************************************************************)
(* Properties of the input schema of a tool                                *)
(***************************************************************************)
PropertyNames(tool) == { q.name : q \in tool.inputSchema.properties }
RequiredNames(tool) == Range(tool.inputSchema.required)
EntryNames(tool) == { tool.executionParameters[k].name : k \in DOMAIN tool.executionParameters }

\* the property requestBody that stands for the request body
SyntheticBody(tool) ==
    { q \in tool.inputSchema.properties : q.name = RequestBodyName /\ q.value.of = "requestBody" }

\* C11: every entry of executionParameters has the property of its name in the input
\* schema, and the synthetic requestBody is the only property without an entry
C11_ParametersMatchProperties ==
    \A i \in DOMAIN tools :
        /\ \A k \in DOMAIN tools[i].executionParameters :
              Cardinality({ q \in tools[i].inputSchema.properties :
                              q.name = tools[i].executionParameters[k].name }) = 1
        /\ \A q \in tools[i].inputSchema.properties :
              q \notin SyntheticBody(tools[i]) => q.name \in EntryNames(tools[i])

\* C19: every declared parameter is a property of the input schema under its name,
\* and required holds exactly the names of the required parameters, plus requestBody
\* when a declared request body is required
C19_ParametersBecomeProperties ==
    \A i \in DOMAIN tools :
        LET op == OperationOf(tools[i])
        IN  /\ \A k \in DOMAIN op.parameters :
                  op.parameters[k].name \in PropertyNames(tools[i])
            /\ RequiredNames(tools[i]) =
                  { op.parameters[k].name :
                      k \in { n \in DOMAIN op.parameters : op.parameters[n].required } }
                  \cup (IF op.requestBody.declared /\ op.requestBody.required
                        THEN {RequestBodyName} ELSE {})

\* the media types a request body lists
Listed(requestBody) == { requestBody.content[k].type : k \in DOMAIN requestBody.content }

\* C20: a request body that lists application/json gives requestBodyContentType
\* application/json; any other gives its first media type and a string-typed
\* requestBody; in both cases requestBody is a property, required iff the body is
C20_MediaTypeSelection ==
    \A i \in DOMAIN tools :
        LET body == OperationOf(tools[i]).requestBody
        IN  (body.declared /\ body.content # <<>>) =>
                /\ IF ApplicationJson \in Listed(body)
                   THEN tools[i].requestBodyContentType = ApplicationJson
                   ELSE /\ tools[i].requestBodyContentType = body.content[1].type
                        /\ \A q \in SyntheticBody(tools[i]) : q.value.type = "string"
                /\ SyntheticBody(tools[i]) # {}
                /\ (RequestBodyName \in RequiredNames(tools[i])) <=> body.required

(***************************************************************************)
(* Properties of the availability of a scheme                              *)
(***************************************************************************)
\* the resolver was asked about the scheme alone and has answered
AskedAlone(schemeName) ==
    /\ rpc = "done"
    /\ definition.securityRequirements = << <<schemeName>> >>

\* the slot of a credential kind of a scheme is set
Has(schemeName, type) == ProcessEnv(getEnvVarName(schemeName, type)) # <<>>

TypeOf(schemeName) ==
    IF schemeName \in DOMAIN allSecuritySchemes THEN allSecuritySchemes[schemeName].type
    ELSE "undeclared"

\* C12: an OAuth2 scheme is available iff its OAUTH_TOKEN slot is set, or its
\* client-id and client-secret slots are both set and it declares a clientCredentials
\* or a password flow
C12_OAuthAvailability ==
    \A name \in SchemeNames :
        (AskedAlone(name) /\ TypeOf(name) = "oauth2") =>
            (applied.found <=>
                \/ Has(name, OAUTH_TOKEN)
                \/ /\ Has(name, OAUTH_CLIENT_ID)
                   /\ Has(name, OAUTH_CLIENT_SECRET)
                   /\ name \in {OAuthScheme, NoUrlScheme, PasswordScheme})

\* C12 witness: the scheme with the authorizationCode flow only, with client id and
\* client secret set and no token, was found unavailable
C12_Witness ==
    /\ AskedAlone(CodeFlowScheme)
    /\ env[<<"O","A","U","T","H","_","C","L","I","E","N","T","_","I","D","_","A","C">>] # <<>>
    /\ Has(CodeFlowScheme, OAUTH_CLIENT_SECRET)
    /\ ~Has(CodeFlowScheme, OAUTH_TOKEN)
    /\ ~applied.found

\* C18: an apiKey scheme is available iff its API_KEY slot is set, an http bearer
\* scheme iff its BEARER_TOKEN slot is set, an http basic scheme iff its
\* BASIC_USERNAME and BASIC_PASSWORD slots are both set, an openIdConnect scheme iff
\* its OPENID_TOKEN slot is set; a scheme that is not declared is never available
C18_OtherAvailability ==
    /\ AskedAlone(ApiKeyScheme) => (applied.found <=> Has(ApiKeyScheme, API_KEY))
    /\ AskedAlone(BearerScheme) => (applied.found <=> Has(BearerScheme, BEARER_TOKEN))
    /\ AskedAlone(BasicScheme) =>
          (applied.found <=> (Has(BasicScheme, BASIC_USERNAME) /\ Has(BasicScheme, BASIC_PASSWORD)))
    /\ AskedAlone(OpenIdScheme) => (applied.found <=> Has(OpenIdScheme, OPENID_TOKEN))
    /\ AskedAlone(UnknownScheme) => ~applied.found

\* C18 witness: the basic scheme with its username set and its password unset was
\* found unavailable
C18_Witness ==
    /\ AskedAlone(BasicScheme)
    /\ Has(BasicScheme, BASIC_USERNAME)
    /\ ~Has(BasicScheme, BASIC_PASSWORD)
    /\ ~applied.found

(***************************************************************************)
(* Properties of the invocations                                           *)
(***************************************************************************)
\* the last scheme of the entry applied, the one whose Authorization header stays
LastScheme(call) == call.entry[Len(call.entry)]

\* the entry applied ends with an OAuth2 scheme whose pre-provisioned token is set
UsesPreProvided(call) ==
    /\ call.found
    /\ call.entry # <<>>
    /\ TypeOf(LastScheme(call)) = "oauth2"
    /\ Has(LastScheme(call), OAUTH_TOKEN)

\* C13: when the OAUTH_TOKEN slot of an OAuth2 scheme is set, that token is applied,
\* no token request is sent and the cache is left as it was
C13_PreProvidedToken ==
    /\ [](\A call \in InProgress :
            UsesPreProvided(call) =>
                /\ call.pc = "awaitApi"
                /\ call.requests = 0
                /\ call.acquired = "none"
                /\ [name  |-> Authorization,
                    value |-> Bearer(env[getEnvVarName(LastScheme(call), OAUTH_TOKEN)]),
                    by    |-> LastScheme(call)] \in call.headers)
    /\ [][(\E r \in BagToSet(calls') : Appears(r) /\ UsesPreProvided(r))
             => cache' = cache]_vars

\* C13 witness: a call applied the pre-provisioned token of its scheme while the
\* client credentials were set too and the cache held an entry of another scheme
C13_Witness ==
    \E call \in InProgress :
        /\ UsesPreProvided(call)
        /\ call.pc = "awaitApi"
        /\ Has(LastScheme(call), OAUTH_CLIENT_ID)
        /\ Has(LastScheme(call), OAUTH_CLIENT_SECRET)
        /\ Has(SchemeNameLiteral, OAUTH_CLIENT_ID)
        /\ Has(SchemeNameLiteral, OAUTH_CLIENT_SECRET)
        /\ cache # {}

\* C14: the entry written for a fetched token has expiresAt = t + expires_in - 60 s,
\* t being the time of the acquisition call and expires_in 3600 s when the response
\* has none (so t + 3540 s), in milliseconds
C14_ExpiryComputation ==
    \A call \in InProgress : \A e \in cache : \A r \in responses :
        (call.acquired = "fetched" /\ e.token = call.token /\ r.token = call.token) =>
            /\ e.expiresAt =
                  call.at + (IF r.expires_in = 0 THEN 3600 ELSE r.expires_in) * 1000 - 60000
            /\ r.expires_in = 0 => e.expiresAt = call.at + 3540 * 1000

\* C14 witness: a token whose response came later than the call and carried no
\* expires_in is cached until 3540 s after the call
C14_Witness ==
    \E call \in InProgress : \E e \in cache : \E r \in responses :
        /\ call.acquired = "fetched" /\ e.token = call.token /\ r.token = call.token
        /\ r.expires_in = 0
        /\ now > call.at
        /\ e.expiresAt = call.at + 3540000

\* C15: while a call is suspended on its token request, every other call in progress
\* can take its next step, up to its return, and a new invocation can begin
C15_OthersNotBlocked ==
    \A call \in InProgress :
        call.pc = "awaitToken" =>
            /\ \A other \in InProgress :
                  other.pc = "awaitApi" => ENABLED ApiResponse(other)
            /\ \A other \in InProgress : \A response \in TokenResponses :
                  (other.pc = "awaitToken" /\ other # call)
                      => ENABLED TokenResponse(other, response)
            /\ (BagCardinality(calls) < MaxCalls /\ started < MaxInvocations) =>
                  ENABLED Invoke(NoRequirements, Accepted)

\* C15 witness: a call is still suspended on its token request while a call begun
\* later, for the same key, has fetched its token and dispatched its request
C15_Witness ==
    \E call \in InProgress, other \in InProgress :
        /\ call.pc = "awaitToken"
        /\ other.at > call.at
        /\ other.key = call.key
        /\ other.acquired = "fetched"
        /\ other.pc = "awaitApi"

\* the client identifier the acquisition of the call read
ClientIdOf(call) == call.client

SamePair(c1, c2) == AskedScheme(c1) = AskedScheme(c2) /\ ClientIdOf(c1) = ClientIdOf(c2)

\* C16: two calls use the same cache key iff they have the same scheme name and
\* client identifier, and a token served from the cache was fetched for the same pair
C16_KeyedByPair ==
    \A c1 \in InProgress, c2 \in InProgress :
        /\ (LookedUp(c1) /\ LookedUp(c2)) => (c1.key = c2.key <=> SamePair(c1, c2))
        /\ (c1.acquired \in {"hit", "fetched"} /\ c2.acquired = "hit"
              /\ c1.token = c2.token) => SamePair(c1, c2)

\* C16 witness: two schemes with the same client identifier each fetched a token and
\* the cache holds one entry for each
C16_Witness ==
    \E c1 \in InProgress, c2 \in InProgress :
        /\ c1.acquired = "fetched" /\ c2.acquired = "fetched"
        /\ AskedScheme(c1) # AskedScheme(c2)
        /\ ClientIdOf(c1) = ClientIdOf(c2)
        /\ \E e1 \in cache, e2 \in cache :
              /\ e1.key = c1.key /\ e1.token = c1.token
              /\ e2.key = c2.key /\ e2.token = c2.token
              /\ e1 # e2

\* no entry of the requirements is satisfied by the credentials set
Unsatisfiable(requirements) ==
    \A i \in DOMAIN requirements :
        \E k \in DOMAIN requirements[i] : ~SchemeAvailable(requirements[i][k])

\* C17: a tool that declares requirements none of which is satisfied is warned about
\* and its request is dispatched with no header or query parameter from the
\* security step
C17_UnsatisfiedProceeds ==
    \A call \in InProgress :
        /\ (Len(call.requirements) > 0 /\ Unsatisfiable(call.requirements)) =>
              /\ call.warned
              /\ call.pc = "awaitApi"
              /\ call.headers = {AcceptHeader}
              /\ call.query = {}
        /\ call.warned => Len(call.requirements) > 0

\* C17 witness: a tool requiring a bearer token and an OAuth2 token, of which only
\* the second is available, was dispatched with a warning
C17_Witness ==
    \E call \in InProgress :
        /\ call.requirements = << <<BearerScheme, OAuthScheme>> >>
        /\ SchemeAvailable(OAuthScheme)
        /\ ~SchemeAvailable(BearerScheme)
        /\ call.warned
        /\ call.pc = "awaitApi"

\* C29: AND application. When an entry is selected and every credential it needs has
\* been obtained, the dispatched request carries, for every scheme of the entry, the
\* credential that scheme applied: none was removed or overwritten by another scheme
\* of the entry.
C29_EveryCredentialCarried ==
    \A call \in InProgress :
        call.pc = "awaitApi" /\ call.found /\ call.acquired # "failed" =>
            \A i \in DOMAIN call.entry :
                \E h \in call.headers \cup call.query : h.by = call.entry[i]

\* C28: an invocation looks up the tool, validates the arguments, routes the
\* parameters and checks the path before it resolves security and dispatches: an
\* invocation that waits for the token endpoint or for the proxied API has passed
\* the three checks, and an invocation that fails one of them returns an error
\* without a token request, without a proxied request and with the cache as it was.
C28_ChecksBeforeRequests ==
    /\ [](\A call \in InProgress : call.request = Accepted /\ call.error = "none")
    /\ [][rejected' # rejected =>
             /\ calls' = calls
             /\ cache' = cache
             /\ issued' = issued]_vars

\* a token is in the cache and the invocation after the one that fetched it has
\* returned an error for a placeholder left in the path
C28_Witness ==
    /\ cache # {}
    /\ \E r \in rejected : r.n = 2 /\ r.error = "unresolvedPath"

====
